---- MODULE Spec2Model ----
(***************************************************************************)
(* The chat widget of static/src/js/chatbot.js as a state machine.         *)
(*                                                                         *)
(* The page's event loop runs one callback at a time, so every handler and *)
(* every stretch of sendMessage between two awaits is one atomic action.   *)
(* sendMessage has two awaits (fetch, then res.json()), hence three        *)
(* stretches: the synchronous start, the resumption after fetch, and the   *)
(* resumption after res.json().                                            *)
(***************************************************************************)
EXTENDS Integers, Sequences, FiniteSets

VARIABLES
    dom,        \* which elements the page holds (getElementById / querySelectorAll)
    server,     \* the bodies the reply endpoint may answer with
    limit,      \* how many sendMessage calls the session is followed for
    phase,      \* "loading" before DOMContentLoaded, then "active" or "inactive"
    children,   \* chatBox's child elements, in document order
    input,      \* userInput.value, a sequence of characters
    calls,      \* the sendMessage invocations that got past the empty check,
                \* each with its position and the steps it has taken so far
    requests,   \* the bodies handed to fetch, in order
    last,       \* the callback that ran last, with what it was given
    form        \* the project form's date fields: values, min, custom validity

vars == <<dom, server, limit, phase, children, input, calls, requests, last, form>>

env == <<dom, server, limit, form>>

(***************************************************************************)
(* Bounds                                                                  *)
(***************************************************************************)
\* sendMessage calls followed on the chat page with one quick reply.
MaxSubmits == 2

\* sendMessage calls followed on the page with every kind of payload and body.
MaxExchanges == 1

(***************************************************************************)
(* JavaScript values, as far as the script looks at them                   *)
(***************************************************************************)
Undef == [t |-> "undefined"]

Null == [t |-> "null"]

S(s) == [t |-> "string", v |-> s]

Obj(f) == [t |-> "object", f |-> f]

\* ToBoolean: undefined, null and the empty string are falsy; objects and
\* non-empty strings are truthy.
Truthy(v) ==
    \/ v.t = "object"
    \/ v.t = "string" /\ Len(v.v) > 0

\* Property read v.k on a value that is neither undefined nor null.
Get(v, k) ==
    IF v.t = "object" /\ k \in DOMAIN v.f THEN v.f[k] ELSE Undef

\* String conversion, as done by "Error: " + x and by innerText = x.
ToString(v) ==
    CASE v.t = "string" -> v.v
      [] v.t = "undefined" -> "undefined"
      [] v.t = "null" -> "null"
      [] v.t = "object" -> "[object Object]"

\* A sequence of characters as one string.
RECURSIVE Str(_)
Str(cs) == IF cs = <<>> THEN "" ELSE Head(cs) \o Str(Tail(cs))

IsSpace(c) == c = " "

RECURSIVE TrimStart(_)
TrimStart(cs) ==
    IF cs # <<>> /\ IsSpace(Head(cs)) THEN TrimStart(Tail(cs)) ELSE cs

RECURSIVE TrimEnd(_)
TrimEnd(cs) ==
    IF cs # <<>> /\ IsSpace(cs[Len(cs)])
    THEN TrimEnd(SubSeq(cs, 1, Len(cs) - 1))
    ELSE cs

\* String.prototype.trim
Trim(cs) == TrimEnd(TrimStart(cs))

(***************************************************************************)
(* Inputs                                                                  *)
(***************************************************************************)
\* What the user may have typed into the input field.
InputValues == { <<>>, <<" ">>, <<" ", "h", "i", " ">> }

\* btn.getAttribute('data-msg') of the quick-reply buttons: null when the
\* attribute is missing, otherwise the attribute's string.
QuickPayloads == { Null, S(<<>>), S(<<" ">>), S(<<"F", "A", "Q">>) }

Keys == { "Enter", "x" }

\* err.message of a rejected fetch and of a failed res.json().
FetchErrors == { "timeout" }

ParseErrors == { "Unexpected end of JSON input" }

\* err.message of the TypeError raised by reading .result of null; the text
\* depends on the engine.
TypeErrors == { "Cannot read properties of null (reading 'result')", "data is null" }

\* The result member of a body: missing, null, a string, or an object whose
\* reply and error members are missing, empty or a text.
ResultObjects ==
    { Obj([reply |-> r, error |-> e]) :
        r \in { Undef, S(""), S("Hi") }, e \in { Undef, S(""), S("bad input") } }

Results == { Undef, Null, S("ok") } \cup ResultObjects

\* The error member of a body: missing, a string, or an object with a message.
Errors == { Undef, S("down"), Obj([message |-> S("down")]) }

\* What res.json() may resolve to: null, a string, or an object with a result
\* member, an error member, or both.
Responses ==
    { Null, S("pong") }
    \cup { Obj([result |-> r, error |-> Undef]) : r \in Results }
    \cup { Obj([result |-> r, error |-> e]) :
            r \in { Undef, Null, Obj([reply |-> S("Hi"), error |-> Undef]),
                    Obj([reply |-> Undef, error |-> Undef]) },
            e \in Errors \ { Undef } }

\* The expected success body.
ReplyBody == Obj([result |-> Obj([reply |-> S("Hi"), error |-> Undef]), error |-> Undef])

Page(quick) ==
    [chatBox |-> TRUE, userInput |-> TRUE, sendBtn |-> TRUE, clearBtn |-> TRUE,
     quick |-> quick]

\* Every page the script may be loaded on: each element present or absent,
\* with or without a quick-reply button.
DomConfigs ==
    [chatBox : BOOLEAN, userInput : BOOLEAN, sendBtn : BOOLEAN, clearBtn : BOOLEAN,
     quick : { {}, { S(<<"F", "A", "Q">>) } }]

(***************************************************************************)
(* Elements of the chat box                                                *)
(***************************************************************************)
LoaderId == "loading-indicator"

Message(text, className) ==
    [className |-> "message " \o className, innerText |-> text, id |-> ""]

Loader == [className |-> "message bot loading", innerText |-> "", id |-> LoaderId]

WelcomeText == "Hello! I'm Dragon Chat. How can I assist you today?"

ClearedText == "Chat cleared. How can I help you?"

\* appendMessage inserting the new div before the first child.
appendMessageFirst(ch, text, className) == << Message(text, className) >> \o ch

appendMessage(ch, text, className) == Append(ch, Message(text, className))

\* document.getElementById("loading-indicator"): the first such element's
\* position, 0 when there is none.
LoaderIndex(ch) ==
    IF \E i \in DOMAIN ch : ch[i].id = LoaderId
    THEN CHOOSE i \in DOMAIN ch :
            /\ ch[i].id = LoaderId
            /\ \A j \in DOMAIN ch : ch[j].id = LoaderId => i <= j
    ELSE 0

\* showLoading without its first line, the check for an existing indicator.
showLoadingUnguarded(ch) == Append(ch, Loader)

showLoading(ch) == IF LoaderIndex(ch) # 0 THEN ch ELSE Append(ch, Loader)

\* hideLoading removing the chat box's last child instead of the indicator.
hideLoadingLastChild(ch) ==
    IF LoaderIndex(ch) # 0 THEN SubSeq(ch, 1, Len(ch) - 1) ELSE ch

hideLoading(ch) ==
    LET i == LoaderIndex(ch) IN
    IF i # 0 THEN SubSeq(ch, 1, i - 1) \o SubSeq(ch, i + 1, Len(ch)) ELSE ch

(***************************************************************************)
(* sendMessage                                                             *)
(***************************************************************************)
\* const message = manualMsg || userInput.value.trim();
MessageOf(manualMsg, value) ==
    IF Truthy(manualMsg) THEN manualMsg.v ELSE Trim(value)

\* if (!manualMsg) userInput.value = "";
InputAfterSend(manualMsg, value) ==
    IF ~Truthy(manualMsg) THEN <<>> ELSE value

\* A body whose params carry no text.
RequestBodyWithoutText(message) ==
    [jsonrpc |-> "2.0", method |-> "call", params |-> [message |-> ""]]

\* The body handed to fetch.
RequestBody(message) ==
    [jsonrpc |-> "2.0", method |-> "call", params |-> [message |-> message]]

\* The chain testing whether reply and error are present ('reply' in result)
\* instead of whether they are truthy.
InterpretByPresence(data) ==
    LET result == Get(data, "result") IN
    IF Truthy(result)
    THEN IF Get(result, "reply").t # "undefined"
         THEN <<ToString(Get(result, "reply")), "bot">>
         ELSE IF Get(result, "error").t # "undefined"
              THEN <<"Error: " \o ToString(Get(result, "error")), "err">>
              ELSE <<"Error: Unexpected response format", "err">>
    ELSE IF Truthy(Get(data, "error"))
         THEN <<"Error: " \o ToString(Get(Get(data, "error"), "message")), "err">>
         ELSE <<"Error: Could not get response", "err">>

\* The if/else chain over the parsed body: the text and class handed to
\* appendMessage. data is neither undefined nor null.
Interpret(data) ==
    LET result == Get(data, "result") IN
    IF Truthy(result)
    THEN IF Truthy(Get(result, "reply"))
         THEN <<ToString(Get(result, "reply")), "bot">>
         ELSE IF Truthy(Get(result, "error"))
              THEN <<"Error: " \o ToString(Get(result, "error")), "err">>
              ELSE <<"Error: Unexpected response format", "err">>
    ELSE IF Truthy(Get(data, "error"))
         THEN <<"Error: " \o ToString(Get(Get(data, "error"), "message")), "err">>
         ELSE <<"Error: Could not get response", "err">>

\* The chain with its outer "else if" and "else" run unconditionally.
AppendsFallingThrough(data) ==
    << Interpret(data), <<"Error: Could not get response", "err">> >>

\* The appendMessage calls the chain makes for one body, in order.
Appends(data) == << Interpret(data) >>

RECURSIVE AppendAll(_, _)
AppendAll(ch, ms) ==
    IF ms = <<>> THEN ch
    ELSE AppendAll(appendMessage(ch, Head(ms)[1], Head(ms)[2]), Tail(ms))

\* One "result" step for each message appended.
ResultSteps(ms) == [k \in DOMAIN ms |-> "result"]

\* The statements up to the first await, in order: the user message, the
\* indicator, the fetch call.
StartSteps == << "user", "show", "fetch" >>

\* The statements between the two awaits, with the message already appended
\* when fetch resolves.
ResolvedStepsResultFirst == << "resolved", "result", "hide" >>

\* The statements between the two awaits: fetch has resolved, hideLoading().
ResolvedSteps == << "resolved", "hide" >>

\* The statements of the catch block: the failure is in err, hideLoading(),
\* the error message.
CaughtSteps == << "failed", "hide", "result" >>

\* The effect on the chat box of the statements `steps`, run in order, where
\* the message appended is `text` with class `className`.
RECURSIVE Run(_, _, _, _)
Run(ch, steps, text, className) ==
    IF steps = <<>> THEN ch
    ELSE LET step == Head(steps)
             after == CASE step \in { "user", "result" } -> appendMessage(ch, text, className)
                        [] step = "show" -> showLoading(ch)
                        [] step = "hide" -> hideLoading(ch)
                        [] OTHER -> ch
         IN Run(after, Tail(steps), text, className)

\* The catch block without its hideLoading().
CatchKeepingLoader(ch, description) ==
    appendMessage(ch, "Error: " \o description, "err")

\* The catch block: hideLoading(), then the error message.
Catch(ch, description) ==
    Run(ch, CaughtSteps, "Error: " \o description, "err")

\* The try block closed before "const data = await res.json()".
TryCoversFetchOnly == { "fetch" }

\* The awaits the try block encloses.
TryCovers == { "fetch", "json" }

\* Call i after taking `steps`, now at `st`.
Advance(i, st, steps) ==
    [calls EXCEPT ![i].st = st, ![i].steps = @ \o steps]

\* An early return that also refuses a message while an earlier call waits.
ReturnsWhileWaiting(message, cs) ==
    message = <<>> \/ \E i \in DOMAIN cs : cs[i].st \in { "fetch", "json" }

\* if (!message) return; the calls in progress `cs` are not consulted.
Returns(message, cs) == message = <<>>

\* Everything up to the first await: lines 39-47.
Start(manualMsg, trigger) ==
    LET message == MessageOf(manualMsg, input) IN
    /\ last' = [op |-> trigger, arg |-> manualMsg]
    /\ IF Returns(message, calls)
       THEN UNCHANGED <<children, input, calls, requests>>
       ELSE /\ Len(calls) < limit
            /\ children' = Run(children, StartSteps, Str(message), "user")
            /\ input' = InputAfterSend(manualMsg, input)
            /\ calls' = Append(calls, [st |-> "fetch", steps |-> StartSteps])
            /\ requests' = Append(requests, RequestBody(Str(message)))
    /\ UNCHANGED <<env, phase>>

\* fetch resolved: hideLoading(), then res.json() is awaited.
FetchResolved(i) ==
    /\ phase = "active"
    /\ i \in DOMAIN calls
    /\ calls[i].st = "fetch"
    /\ children' = Run(children, ResolvedSteps, "", "bot")
    /\ calls' = Advance(i, "json", ResolvedSteps)
    /\ last' = [op |-> "fetchResolved", arg |-> [id |-> i]]
    /\ UNCHANGED <<env, phase, input, requests>>

\* An await of call i, inside or outside the try block, failed.
Failed(i, stage, description) ==
    /\ last' = [op |-> stage \o "Rejected", arg |-> [id |-> i, description |-> description]]
    /\ IF stage \in TryCovers
       THEN /\ children' = Catch(children, description)
            /\ calls' = Advance(i, "done", CaughtSteps)
       ELSE /\ calls' = Advance(i, "threw", <<"failed">>)
            /\ UNCHANGED children
    /\ UNCHANGED <<env, phase, input, requests>>

\* fetch rejected.
FetchRejected(i) ==
    /\ phase = "active"
    /\ i \in DOMAIN calls
    /\ calls[i].st = "fetch"
    /\ \E d \in FetchErrors : Failed(i, "fetch", d)

\* res.json() rejected: the body is not JSON.
JsonRejected(i) ==
    /\ phase = "active"
    /\ i \in DOMAIN calls
    /\ calls[i].st = "json"
    /\ \E d \in ParseErrors : Failed(i, "json", d)

\* res.json() resolved with data: lines 60-72, and the catch block when
\* reading data.result throws.
JsonResolved(i) ==
    /\ phase = "active"
    /\ i \in DOMAIN calls
    /\ calls[i].st = "json"
    /\ \E data \in server :
        IF data.t \in { "undefined", "null" }
        THEN \E d \in TypeErrors :
                /\ children' = Catch(children, d)
                /\ calls' = Advance(i, "done", <<"parsed">> \o CaughtSteps)
                /\ last' = [op |-> "jsonResolved",
                            arg |-> [id |-> i, data |-> data, description |-> d]]
        ELSE /\ children' = AppendAll(children, Appends(data))
             /\ calls' = Advance(i, "done", <<"parsed">> \o ResultSteps(Appends(data)))
             /\ last' = [op |-> "jsonResolved",
                         arg |-> [id |-> i, data |-> data, description |-> ""]]
    /\ UNCHANGED <<env, phase, input, requests>>

(***************************************************************************)
(* The page's callbacks                                                    *)
(***************************************************************************)
\* The safety guard tested on the log container alone.
ApplicableWithChatBox(d) == d.chatBox

\* The safety guard, negated: if (!chatBox || !userInput) return;
Applicable(d) == d.chatBox /\ d.userInput

\* The listeners attached without "if (clearBtn)".
NullCheckedWithoutClear == { "sendBtn", "userInput" }

\* The elements whose addEventListener call is inside "if (element)".
NullChecked == { "sendBtn", "userInput", "clearBtn" }

\* The DOMContentLoaded handler: the guard, the listeners, the welcome message.
\* addEventListener on a missing element outside its "if" throws, which ends
\* the handler before the welcome message.
Initialize ==
    /\ phase = "loading"
    /\ IF ~Applicable(dom)
       THEN /\ phase' = "inactive"
            /\ UNCHANGED children
       ELSE IF \E e \in { "sendBtn", "userInput", "clearBtn" } : ~dom[e] /\ e \notin NullChecked
            THEN /\ phase' = "crashed"
                 /\ UNCHANGED children
            ELSE /\ phase' = "active"
                 /\ children' = appendMessage(children, WelcomeText, "bot")
    /\ last' = [op |-> "initialize", arg |-> Undef]
    /\ UNCHANGED <<env, input, calls, requests>>

\* The user edits the input field.
Type ==
    /\ dom.userInput
    /\ \E v \in InputValues : input' = v
    /\ last' = [op |-> "type", arg |-> Undef]
    /\ UNCHANGED <<env, phase, children, calls, requests>>

\* The listener without the confirm() test.
ClearedUnasked(ch, confirmed) == appendMessage(<<>>, ClearedText, "bot")

\* The listener without chatBox.innerHTML = "".
ClearedWithoutEmptying(ch, confirmed) ==
    IF confirmed THEN appendMessage(ch, ClearedText, "bot") ELSE ch

\* The clear button's listener: chatBox.innerHTML = "" and the message, when
\* confirm() returned true.
Cleared(ch, confirmed) ==
    IF confirmed THEN appendMessage(<<>>, ClearedText, "bot") ELSE ch

SendClick ==
    /\ phase = "active"
    /\ dom.sendBtn
    /\ Start(Null, "send")

Keypress ==
    /\ phase = "active"
    /\ \E key \in Keys :
        IF key = "Enter"
        THEN Start(Null, "enter")
        ELSE /\ last' = [op |-> "keypress", arg |-> key]
             /\ UNCHANGED <<env, phase, children, input, calls, requests>>

QuickReplyClick ==
    /\ phase = "active"
    /\ \E p \in dom.quick : Start(p, "quick")

\* A clear that also aborts the calls still waiting.
InFlightAfterClearAborted(cs, confirmed) ==
    IF confirmed
    THEN [i \in DOMAIN cs |->
            IF cs[i].st \in { "fetch", "json" } THEN [cs[i] EXCEPT !.st = "aborted"] ELSE cs[i]]
    ELSE cs

\* The sendMessage calls after the clear button's listener ran: the listener
\* holds no reference to them and aborts nothing.
InFlightAfterClear(cs, confirmed) == cs

ClearClick ==
    /\ phase = "active"
    /\ dom.clearBtn
    /\ \E confirmed \in BOOLEAN :
        /\ last' = [op |-> "clear", arg |-> confirmed]
        /\ children' = Cleared(children, confirmed)
        /\ calls' = InFlightAfterClear(calls, confirmed)
    /\ UNCHANGED <<env, phase, input, requests>>

\* The project form's date fields as the page delivers them: no value, no
\* min attribute, no custom validity error.
FormLoaded == [startDate |-> <<>>, endDate |-> <<>>, min |-> Null, customValidity |-> ""]

Blank ==
    /\ form = FormLoaded
    /\ phase = "loading"
    /\ children = <<>>
    /\ input = <<>>
    /\ calls = <<>>
    /\ requests = <<>>
    /\ last = [op |-> "none", arg |-> Undef]

\* The chat page with one quick reply, the server answering as documented.
Init ==
    /\ dom = Page({ S(<<"F", "A", "Q">>) })
    /\ server = { ReplyBody }
    /\ limit = MaxSubmits
    /\ Blank

\* The chat page with every kind of quick-reply payload, the server answering
\* with any body.
InitAnyBody ==
    /\ dom = Page(QuickPayloads)
    /\ server = Responses
    /\ limit = MaxExchanges
    /\ Blank

\* Any page, the server answering as documented.
InitAnyPage ==
    /\ dom \in DomConfigs
    /\ server = { ReplyBody }
    /\ limit = MaxExchanges
    /\ Blank

Next ==
    \/ Initialize
    \/ Type
    \/ SendClick
    \/ Keypress
    \/ QuickReplyClick
    \/ ClearClick
    \/ \E i \in DOMAIN calls : FetchResolved(i)
    \/ \E i \in DOMAIN calls : FetchRejected(i)
    \/ \E i \in DOMAIN calls : JsonResolved(i)
    \/ \E i \in DOMAIN calls : JsonRejected(i)

Spec == Init /\ [][Next]_vars

SpecAnyBody == InitAnyBody /\ [][Next]_vars

SpecAnyPage == InitAnyPage /\ [][Next]_vars

(***************************************************************************)
(* The project form's start and end date fields                            *)
(***************************************************************************)
\* The values a date field can hold besides the empty string: valid date
\* strings (yyyy-mm-dd).
Dates ==
    { <<"2", "0", "2", "4", "-", "0", "3", "-", "0", "1">>,
      <<"2", "0", "2", "4", "-", "0", "3", "-", "1", "5">>,
      <<"2", "0", "2", "4", "-", "0", "5", "-", "0", "1">>,
      <<"2", "0", "2", "5", "-", "0", "1", "-", "0", "1">>,
      <<"9", "9", "9", "9", "-", "1", "2", "-", "3", "1">>,
      <<"2", "0", "2", "5", "-", "0", "6", "-", "3", "0">> }

DateValues == Dates \cup { <<>> }

\* The UTF-16 code unit of a character of a date string.
CodeUnit(c) ==
    CASE c = "-" -> 45
      [] c = "0" -> 48 [] c = "1" -> 49 [] c = "2" -> 50 [] c = "3" -> 51 [] c = "4" -> 52
      [] c = "5" -> 53 [] c = "6" -> 54 [] c = "7" -> 55 [] c = "8" -> 56 [] c = "9" -> 57

\* a < b on two strings: by code units, a proper prefix being smaller.
RECURSIVE LessThan(_, _)
LessThan(a, b) ==
    IF b = <<>> THEN FALSE
    ELSE IF a = <<>> THEN TRUE
    ELSE IF Head(a) = Head(b) THEN LessThan(Tail(a), Tail(b))
    ELSE CodeUnit(Head(a)) < CodeUnit(Head(b))

EndBeforeStartText == "End date must be after start date"

\* The start field's change listener, the field now holding `value`:
\* endDateInput.setAttribute('min', this.value).
StartChanged(f, value) == [f EXCEPT !.startDate = value, !.min = S(value)]

\* The end field's change listener, the field now holding `value`.
EndChanged(f, value) ==
    [f EXCEPT !.endDate = value,
              !.customValidity =
                    IF f.startDate # <<>> /\ LessThan(value, f.startDate)
                    THEN EndBeforeStartText
                    ELSE ""]

\* The user commits a new value in the start date field.
StartChange ==
    \E value \in DateValues :
        /\ value # form.startDate
        /\ form' = StartChanged(form, value)
        /\ last' = [op |-> "startChange", arg |-> S(value)]
    /\ UNCHANGED <<dom, server, limit, phase, children, input, calls, requests>>

\* The user commits a new value in the end date field.
EndChange ==
    \E value \in DateValues :
        /\ value # form.endDate
        /\ form' = EndChanged(form, value)
        /\ last' = [op |-> "endChange", arg |-> S(value)]
    /\ UNCHANGED <<dom, server, limit, phase, children, input, calls, requests>>

\* The project configuration page: no chat box, both date fields present.
InitDates ==
    /\ dom = [chatBox |-> FALSE, userInput |-> FALSE, sendBtn |-> FALSE, clearBtn |-> FALSE,
              quick |-> {}]
    /\ server = {}
    /\ limit = MaxExchanges
    /\ Blank

NextDates ==
    \/ StartChange
    \/ EndChange

SpecDates == InitDates /\ [][NextDates]_vars

(***************************************************************************)
(* Vocabulary of the properties                                            *)
(***************************************************************************)
\* The number of Pending Request Markers among the elements ch.
MarkerCountOf(ch) == Cardinality({ k \in DOMAIN ch : ch[k].id = LoaderId })

MarkerCount == MarkerCountOf(children)

IsMessage(e) == e.id # LoaderId

\* The Conversation Log: the elements ch without the marker.
Log(ch) == SelectSeq(ch, IsMessage)

\* A call whose exchange has neither delivered its result nor failed.
Unfinished(i) == calls[i].st \in { "fetch", "json" }

SubmitOps == { "send", "enter", "quick" }

\* A string that is empty or holds only whitespace.
IsBlank(cs) == Trim(cs) = <<>>

\* The result member of a parsed body, undefined when the body has none.
ResultOf(data) == IF data.t = "object" THEN Get(data, "result") ELSE Undef

\* The error member of a parsed body, undefined when the body has none.
ErrorOf(data) == IF data.t = "object" THEN Get(data, "error") ELSE Undef

HasField(v, k) == Get(v, k).t # "undefined"

\* No clear has emptied the chat box `ch`: the welcome Message is in it.
NoClear(ch) == \E k \in DOMAIN ch : ch[k] = Message(WelcomeText, "bot")

\* The Messages of class `className` in the chat box `ch`.
OfClass(ch, className) == SelectSeq(ch, LAMBDA e : e.className = "message " \o className)

\* The digits ds read as a decimal number.
RECURSIVE Number(_)
Number(ds) ==
    IF ds = <<>> THEN 0
    ELSE Number(SubSeq(ds, 1, Len(ds) - 1)) * 10 + (CodeUnit(ds[Len(ds)]) - CodeUnit("0"))

\* The calendar position of the date string d (year-month-day), larger for
\* a later day.
Ordinal(d) ==
    LET dash == CHOOSE k \in DOMAIN d : d[k] = "-" /\ \A j \in 1..(k - 1) : d[j] # "-"
        year == Number(SubSeq(d, 1, dash - 1))
        month == Number(SubSeq(d, dash + 1, dash + 2))
        day == Number(SubSeq(d, dash + 4, dash + 5))
    IN (year * 100 + month) * 100 + day

\* Both dates are given and a is an earlier day than b.
Earlier(a, b) == a # <<>> /\ b # <<>> /\ Ordinal(a) < Ordinal(b)

\* Call i has taken the step named `step`.
Took(i, step) == \E k \in DOMAIN calls[i].steps : calls[i].steps[k] = step

(***************************************************************************)
(* C1: in every reachable state the view holds at most one Pending Request *)
(* Marker, also when a submit is issued while another submit's marker is   *)
(* showing.                                                                *)
(***************************************************************************)
C1_AtMostOneMarker == MarkerCount <= 1

\* A second submit was just issued while the first one's marker was showing.
C1_Witness ==
    /\ last.op \in SubmitOps
    /\ Len(calls) >= 2
    /\ calls[1].st = "fetch"
    /\ calls[2].st = "fetch"
    /\ MarkerCount = 1

(***************************************************************************)
(* C2: a submit with non-empty text appends exactly one user Message when  *)
(* it starts and exactly one Message of role bot or error when its         *)
(* exchange resolves, with a body or with a failure; apart from these,     *)
(* only initialize and clear change the log.                               *)
(***************************************************************************)
C2_OneUserOneResult ==
    [][
        /\ last'.op \in SubmitOps /\ MessageOf(last'.arg, input) # <<>> =>
                Len(calls') = Len(calls) + 1
        /\ Len(calls') = Len(calls) + 1 =>
                Log(children') =
                    Append(Log(children), Message(requests'[Len(requests')].params.message, "user"))
        /\ \A i \in DOMAIN calls :
                Unfinished(i) /\ calls'[i].st \notin { "fetch", "json" } =>
                    /\ Len(Log(children')) = Len(Log(children)) + 1
                    /\ SubSeq(Log(children'), 1, Len(Log(children))) = Log(children)
                    /\ Log(children')[Len(Log(children'))].className
                            \in { "message bot", "message err" }
        /\ ( /\ Len(calls') = Len(calls)
             /\ \A i \in DOMAIN calls :
                    Unfinished(i) => calls'[i].st \in { "fetch", "json" }
             /\ last'.op \notin { "clear", "initialize" } )
            => Log(children') = Log(children)
    ]_vars

\* The second of two overlapping submits has just received its body.
C2_Witness ==
    /\ last.op = "jsonResolved"
    /\ last.arg.id = 2
    /\ calls[2].st = "done"
    /\ Unfinished(1)

(***************************************************************************)
(* C3: a submit whose text is empty or only whitespace, read from the      *)
(* input field (send button, Enter key, quick reply without a payload) or  *)
(* given as the quick reply's payload, appends no Message, shows no        *)
(* marker and issues no network call.                                      *)
(***************************************************************************)
C3_BlankSubmitDoesNothing ==
    [][
        ( \/ /\ last'.op \in SubmitOps
             /\ last'.arg.t = "null"
             /\ IsBlank(input)
          \/ /\ last'.op = "quick"
             /\ last'.arg.t = "string"
             /\ IsBlank(last'.arg.v) )
        => UNCHANGED <<children, requests>>
    ]_vars

(***************************************************************************)
(* C4, as claimed: for a body with a result object, a reply member of any  *)
(* value gives the bot Message with that text, before any error member;    *)
(* otherwise an error member of any value gives "Error: " + error;         *)
(* otherwise the Message is "Error: Unexpected response format".           *)
(***************************************************************************)
C4_ByPresence ==
    last.op = "jsonResolved" =>
        LET result == ResultOf(last.arg.data) IN
        result.t = "object" =>
            children[Len(children)] =
                IF HasField(result, "reply")
                THEN Message(ToString(Get(result, "reply")), "bot")
                ELSE IF HasField(result, "error")
                     THEN Message("Error: " \o ToString(Get(result, "error")), "err")
                     ELSE Message("Error: Unexpected response format", "err")

(***************************************************************************)
(* C4, amended: for a body with a result object, a reply that is not empty *)
(* gives the bot Message with that text, before any error member;          *)
(* otherwise an error that is not empty gives "Error: " + error; otherwise *)
(* (reply and error each missing or empty) the Message is                  *)
(* "Error: Unexpected response format".                                    *)
(***************************************************************************)
C4_ByTruthiness ==
    last.op = "jsonResolved" =>
        LET result == ResultOf(last.arg.data) IN
        result.t = "object" =>
            children[Len(children)] =
                IF Truthy(Get(result, "reply"))
                THEN Message(Get(result, "reply").v, "bot")
                ELSE IF Truthy(Get(result, "error"))
                     THEN Message("Error: " \o Get(result, "error").v, "err")
                     ELSE Message("Error: Unexpected response format", "err")

\* A body whose result holds an empty reply next to an error was rendered as
\* that error.
C4_Witness ==
    /\ last.op = "jsonResolved"
    /\ ResultOf(last.arg.data) = Obj([reply |-> S(""), error |-> S("bad input")])
    /\ children[Len(children)] = Message("Error: bad input", "err")

(***************************************************************************)
(* C5: for a body without a result object, a top-level error object gives  *)
(* the error Message "Error: " + error.message, and anything else gives    *)
(* the error Message "Error: Could not get response".                      *)
(***************************************************************************)
C5_NoResultObject ==
    last.op = "jsonResolved" =>
        LET data == last.arg.data IN
        ResultOf(data).t # "object" =>
            children[Len(children)] =
                IF ErrorOf(data).t = "object"
                THEN Message("Error: " \o ToString(Get(ErrorOf(data), "message")), "err")
                ELSE Message("Error: Could not get response", "err")

(***************************************************************************)
(* C6: when a submit's fetch rejects or its body fails to parse, with      *)
(* description d, the failure is caught: exactly one Message, of role      *)
(* error and text "Error: " + d, is appended, no marker is left, and the   *)
(* call ends normally.                                                     *)
(***************************************************************************)
C6_FailureCaught ==
    [][
        last'.op \in { "fetchRejected", "jsonRejected" } =>
            /\ Log(children') =
                    Append(Log(children), Message("Error: " \o last'.arg.description, "err"))
            /\ MarkerCountOf(children') = 0
            /\ calls'[last'.arg.id].st = "done"
    ]_vars

\* A body failed to parse while another submit was waiting for its fetch.
C6_Witness ==
    /\ last.op = "jsonRejected"
    /\ calls[last.arg.id].st = "done"
    /\ \E j \in DOMAIN calls : calls[j].st = "fetch"
    /\ children[Len(children)] = Message("Error: Unexpected end of JSON input", "err")

(***************************************************************************)
(* C7: the marker is never left stuck: when no submit is unfinished, no    *)
(* marker is shown.                                                        *)
(***************************************************************************)
C7_NoStuckMarker ==
    (\A i \in DOMAIN calls : ~Unfinished(i)) => MarkerCount = 0

\* Two submits, the last of which ended by a rejected fetch, are finished.
C7_Witness ==
    /\ Len(calls) >= 2
    /\ \A i \in DOMAIN calls : calls[i].st = "done"
    /\ last.op = "fetchRejected"
    /\ MarkerCount = 0

(***************************************************************************)
(* C8: while a submit's request is outstanding, the marker is visible,     *)
(* whatever other submits and clear actions did in the meantime.           *)
(***************************************************************************)
C8_MarkerWhileOutstanding ==
    (\E i \in DOMAIN calls : calls[i].st = "fetch") => MarkerCount = 1

(***************************************************************************)
(* C9: a clear action whose confirmation is declined changes neither the   *)
(* log, nor the marker, nor the input field, nor the outstanding requests. *)
(***************************************************************************)
C9_DeclinedClearChangesNothing ==
    [][
        last'.op = "clear" /\ ~last'.arg =>
            UNCHANGED <<children, input, calls, requests>>
    ]_vars

\* A clear was declined while a request was outstanding and its marker shown.
C9_Witness ==
    /\ last.op = "clear"
    /\ ~last.arg
    /\ \E i \in DOMAIN calls : Unfinished(i)
    /\ MarkerCount = 1
    /\ Len(Log(children)) >= 2

(***************************************************************************)
(* C10, as claimed: right after a confirmed clear the log holds exactly    *)
(* one Message, the greeting that initialize seeds the log with.           *)
(***************************************************************************)
C10_ResetToWelcome ==
    last.op = "clear" /\ last.arg => children = << Message(WelcomeText, "bot") >>

(***************************************************************************)
(* C10, amended: right after a confirmed clear the chat box holds exactly  *)
(* one element, the bot Message "Chat cleared. How can I help you?", which *)
(* is not the greeting of initialize.                                      *)
(***************************************************************************)
C10_ResetToCleared ==
    last.op = "clear" /\ last.arg =>
        /\ children = << Message(ClearedText, "bot") >>
        /\ children # << Message(WelcomeText, "bot") >>

\* A clear was confirmed while a request was outstanding.
C10_Witness ==
    /\ last.op = "clear"
    /\ last.arg
    /\ \E i \in DOMAIN calls : calls[i].st = "fetch"
    /\ Len(children) = 1

(***************************************************************************)
(* C11: initialize activates the controller exactly when the log container *)
(* and the input field are both present. Otherwise it appends no Message   *)
(* and registers no trigger (no submit or clear ever runs). When both are  *)
(* present it appends exactly one Message, the bot greeting, whichever of  *)
(* the send button, clear button and quick replies are missing. It never   *)
(* raises an error.                                                        *)
(***************************************************************************)
C11_ActivationGuard ==
    phase # "loading" =>
        /\ phase # "crashed"
        /\ phase = "active" <=> (dom.chatBox /\ dom.userInput)
        /\ phase = "inactive" =>
                /\ children = <<>>
                /\ calls = <<>>
                /\ requests = <<>>
                /\ last.op \in { "initialize", "type" }
        /\ phase = "active" /\ last.op = "initialize" =>
                children = << Message(WelcomeText, "bot") >>
        /\ last.op = "send" => dom.sendBtn
        /\ last.op = "clear" => dom.clearBtn
        /\ last.op = "quick" => last.arg \in dom.quick

\* Initialize has just run on a page with the required elements and none of
\* the optional ones.
C11_Witness ==
    /\ last.op = "initialize"
    /\ phase = "active"
    /\ ~dom.sendBtn
    /\ ~dom.clearBtn
    /\ dom.quick = {}
    /\ Len(children) = 1

(***************************************************************************)
(* C12: a submit whose message is not empty issues exactly one outbound    *)
(* call, carrying that message's text, and no other step issues a call or  *)
(* withdraws one: a rejected fetch, an unreadable body and an error body   *)
(* never cause the call to be issued again. So the calls issued are as     *)
(* many as the submits that had a message.                                 *)
(***************************************************************************)
C12_OneCallPerSubmit ==
    [][
        /\ Len(requests') = Len(calls')
        /\ IF last'.op \in SubmitOps /\ MessageOf(last'.arg, input) # <<>>
           THEN /\ Len(requests') = Len(requests) + 1
                /\ SubSeq(requests', 1, Len(requests)) = requests
                /\ requests'[Len(requests')].params.message = Str(MessageOf(last'.arg, input))
           ELSE requests' = requests
    ]_vars

\* The only submit has failed, and one call carrying its text was issued.
C12_Witness ==
    /\ Len(calls) = 1
    /\ calls[1].st = "done"
    /\ Took(1, "failed")
    /\ Len(requests) = 1
    /\ requests[1].params.message = "hi"

(***************************************************************************)
(* C13: a click on a quick-reply control sends the control's own payload   *)
(* and leaves the input field alone, whatever the payload and whatever the *)
(* input field holds: the field's value is neither sent nor changed.       *)
(***************************************************************************)
C13_QuickReplyBypassesInput ==
    [][
        last'.op = "quick" /\ last'.arg.t = "string" =>
            /\ input' = input
            /\ \/ requests' = requests
               \/ requests'[Len(requests')].params.message = Str(last'.arg.v)
    ]_vars

(***************************************************************************)
(* C14: the steps of one submit keep their order whatever else happens in  *)
(* between. The user Message is appended before the request is issued; the *)
(* marker is removed only once the fetch has resolved or a failure is      *)
(* known; the resulting Message is appended only after such a removal and  *)
(* only once the body has been parsed or a failure is known; a finished    *)
(* submit has appended its resulting Message.                              *)
(***************************************************************************)
C14_StepsInOrder ==
    \A i \in DOMAIN calls :
        LET s == calls[i].steps IN
        /\ \E u, f \in DOMAIN s : u < f /\ s[u] = "user" /\ s[f] = "fetch"
        /\ \A k \in DOMAIN s :
                /\ s[k] \in { "resolved", "parsed", "failed", "hide", "result" } =>
                        \E f \in 1..(k - 1) : s[f] = "fetch"
                /\ s[k] = "hide" =>
                        \E j \in 1..(k - 1) : s[j] \in { "resolved", "failed" }
                /\ s[k] = "result" =>
                        /\ \E j \in 1..(k - 1) : s[j] = "hide"
                        /\ \E j \in 1..(k - 1) : s[j] \in { "parsed", "failed" }
        /\ calls[i].st = "done" => Took(i, "result")
        /\ Unfinished(i) => ~Took(i, "result")

\* The first submit finished with a failure while the second, started in
\* between, is still waiting.
C14_Witness ==
    /\ Len(calls) = 2
    /\ calls[1].st = "done"
    /\ Took(1, "resolved")
    /\ Took(1, "failed")
    /\ calls[2].st = "json"

(***************************************************************************)
(* C15: every step changes the Conversation Log (the Messages, without the *)
(* marker) in one of three ways: not at all, by appending one Message at   *)
(* its end with all earlier Messages kept as they were and where they      *)
(* were, or, for a confirmed clear, by replacing it with the single        *)
(* cleared-chat Message. No step edits, reorders or removes one Message.   *)
(***************************************************************************)
C15_AppendOnlyLog ==
    [][
        LET before == Log(children)
            after == Log(children')
        IN \/ after = before
           \/ /\ Len(after) = Len(before) + 1
              /\ SubSeq(after, 1, Len(before)) = before
           \/ /\ last'.op = "clear"
              /\ last'.arg
              /\ after = << Message(ClearedText, "bot") >>
    ]_vars

\* A result has just been appended while the marker of a later submit sits
\* between Messages of the log.
C15_Witness ==
    /\ last.op \in { "jsonResolved", "fetchRejected", "jsonRejected" }
    /\ Len(Log(children)) >= 4
    /\ MarkerCount = 1
    /\ \E k \in DOMAIN children : k < Len(children) /\ children[k].id = LoaderId

(***************************************************************************)
(* C16: sends are neither serialized nor queued. A submit with a message   *)
(* appends its user Message and issues its request in the very step that   *)
(* triggers it, however many earlier submits are still waiting, and leaves *)
(* those as they are; a submit that finishes changes no other submit.      *)
(* While no clear has happened the log holds the greeting, one user        *)
(* Message for every submit and one resulting Message for every finished   *)
(* submit: N user and N resulting Messages once all N have finished.       *)
(***************************************************************************)
C16_SendsOverlap ==
    [][
        /\ last'.op \in SubmitOps /\ MessageOf(last'.arg, input) # <<>> =>
                /\ Log(children') =
                        Append(Log(children), Message(Str(MessageOf(last'.arg, input)), "user"))
                /\ Len(requests') = Len(requests) + 1
                /\ Len(calls') = Len(calls) + 1
                /\ calls'[Len(calls')].st = "fetch"
        /\ \A i \in DOMAIN calls :
                \/ calls'[i] = calls[i]
                \/ /\ Unfinished(i)
                   /\ last'.arg.id = i
                   /\ \A j \in DOMAIN calls : j # i => calls'[j] = calls[j]
        /\ NoClear(children') =>
                LET log == Log(children')
                    finished == { i \in DOMAIN calls' : calls'[i].st = "done" }
                IN /\ Len(OfClass(log, "user")) = Len(calls')
                   /\ Len(OfClass(log, "bot")) + Len(OfClass(log, "err"))
                            = 1 + Cardinality(finished)
                   /\ Len(log) = 1 + Len(calls') + Cardinality(finished)
    ]_vars

\* Two submits overlapped (the second user Message directly follows the
\* first), both have finished and no clear happened.
C16_Witness ==
    /\ NoClear(children)
    /\ Len(calls) = 2
    /\ \A i \in DOMAIN calls : calls[i].st = "done"
    /\ Len(Log(children)) = 5
    /\ Log(children)[2].className = "message user"
    /\ Log(children)[3].className = "message user"

(***************************************************************************)
(* C17: while no clear has happened, the resulting Message of a submit is  *)
(* appended at the end of the log in the step in which its exchange        *)
(* finishes (body parsed or failure caught): after the submit's own user   *)
(* Message, which is already in the log, and after the resulting Message   *)
(* of every exchange that finished earlier, whichever was submitted first. *)
(***************************************************************************)
C17_ResultsInFinishOrder ==
    [][
        \A i \in DOMAIN calls :
            Unfinished(i) /\ calls'[i].st = "done" /\ NoClear(children') =>
                LET before == Log(children)
                    after == Log(children')
                IN /\ Len(OfClass(before, "user")) >= i
                   /\ Len(after) = Len(before) + 1
                   /\ SubSeq(after, 1, Len(before)) = before
                   /\ after[Len(after)].className \in { "message bot", "message err" }
                   /\ after[Len(after)].className = "message err" <=> Took(i, "failed")'
    ]_vars

\* The reply to the second submit precedes the error Message of the first
\* submit, whose exchange failed later.
C17_Witness ==
    /\ NoClear(children)
    /\ Len(calls) = 2
    /\ calls[1].st = "done" /\ Took(1, "failed")
    /\ calls[2].st = "done" /\ ~Took(2, "failed")
    /\ Len(Log(children)) = 5
    /\ Log(children)[2].className = "message user"
    /\ Log(children)[3].className = "message user"
    /\ Log(children)[4].className = "message bot"
    /\ Log(children)[5].className = "message err"

(***************************************************************************)
(* C18: a confirmed clear cancels nothing: it leaves every submit and      *)
(* every request as it was, and a submit that was waiting when the log was *)
(* cleared still appends exactly one resulting Message when its exchange   *)
(* finishes, after the cleared-chat Message, which stays first. The log    *)
(* can then hold a resulting Message without its user Message.             *)
(***************************************************************************)
C18_ClearCancelsNothing ==
    [][
        /\ last'.op = "clear" =>
                /\ calls' = calls
                /\ requests' = requests
        /\ \A i \in DOMAIN calls :
                Unfinished(i) /\ calls'[i].st # calls[i].st =>
                    calls'[i].st \in { "json", "done" }
        /\ \A i \in DOMAIN calls :
                Unfinished(i) /\ calls'[i].st = "done" /\ ~NoClear(children) =>
                    LET before == Log(children)
                        after == Log(children')
                    IN /\ before[1] = Message(ClearedText, "bot")
                       /\ Len(after) = Len(before) + 1
                       /\ SubSeq(after, 1, Len(before)) = before
                       /\ after[Len(after)].className \in { "message bot", "message err" }
    ]_vars

\* Both submits were waiting when the log was cleared; both have appended
\* their results since, and no user Message is in the log.
C18_Witness ==
    /\ Len(calls) = 2
    /\ \A i \in DOMAIN calls : calls[i].st = "done"
    /\ Len(Log(children)) = 3
    /\ Log(children)[1] = Message(ClearedText, "bot")
    /\ OfClass(Log(children), "user") = <<>>

(***************************************************************************)
(* C19: after any sequence of change events on the two date fields, the    *)
(* end date field carries the custom validity error "End date must be      *)
(* after start date" exactly when the start date is not empty and the end  *)
(* date is an earlier day than the start date.                             *)
(***************************************************************************)
C19_ErrorIffEndBeforeStart ==
    form.customValidity = EndBeforeStartText
        <=> (form.startDate # <<>> /\ Earlier(form.endDate, form.startDate))

====
